---- MODULE Spec2Model ----
EXTENDS Integers, Sequences, FiniteSets, TLC

(***************************************************************************)
(* 32-bit words.  TLC integers are 32-bit signed, so a uint32_t is kept as *)
(* the pair <<hi, lo>> of its two 16-bit halves; every operation below is  *)
(* arithmetic modulo 2^32 on that pair.                                    *)
(***************************************************************************)
QRH_HASH_SIZE == 32
QRH_BLOCK_SIZE == 64
QRH_WORDS_SIZE == 16
QRH_CONSTANTS_SIZE == 16
QRH_HALF_ROUNDS == 4
QRH_DIFFUSIONS == 4
QRH_MATRIX_ROUNDS == 2

Pow2(n) == 2 ^ n
H16 == Pow2(16)

And4 == [a \in 0..15 |-> [b \in 0..15 |->
           ((a \div 8) * (b \div 8)) * 8
         + (((a \div 4) % 2) * ((b \div 4) % 2)) * 4
         + (((a \div 2) % 2) * ((b \div 2) % 2)) * 2
         + ((a % 2) * (b % 2))]]

And8 == [a \in 0..255 |-> [b \in 0..255 |->
           And4[a \div 16][b \div 16] * 16 + And4[a % 16][b % 16]]]

AND16(a, b) == And8[a \div 256][b \div 256] * 256 + And8[a % 256][b % 256]
XOR16(a, b) == a + b - 2 * AND16(a, b)
OR16(a, b) == a + b - AND16(a, b)

W(hi, lo) == <<hi, lo>>
Zero32 == W(0, 0)
U32(n) == W((n \div H16) % H16, n % H16)

\* v << n on a uint32_t, 0 <= n < 32
SHL32(v, n) ==
  IF n = 0 THEN v
  ELSE IF n >= 16 THEN W((v[2] % Pow2(32 - n)) * Pow2(n - 16), 0)
  ELSE W((v[1] % Pow2(16 - n)) * Pow2(n) + (v[2] \div Pow2(16 - n)),
         (v[2] % Pow2(16 - n)) * Pow2(n))

\* the four bytes of a word, least significant first
ByteOf(v, k) ==
  IF k = 0 THEN v[2] % 256
  ELSE IF k = 1 THEN v[2] \div 256
  ELSE IF k = 2 THEN v[1] % 256
  ELSE v[1] \div 256

XOR32(x, y) == W(XOR16(x[1], y[1]), XOR16(x[2], y[2]))
OR32(x, y) == W(OR16(x[1], y[1]), OR16(x[2], y[2]))
ADD32(x, y) ==
  LET lo == x[2] + y[2]
      hi == x[1] + y[1] + (lo \div H16)
  IN  W(hi % H16, lo % H16)

\* ROTL32(v, n) ((v << n) | (v >> (32 - n))).  For n = 0 the right shift is
\* by the full width of a uint32_t; the builds either leave v (count taken
\* modulo 32) or give 0, and v | v = v | 0 = v.
Rot16(x, n) ==
  IF n = 0 THEN x
  ELSE W((x[1] % Pow2(16 - n)) * Pow2(n) + (x[2] \div Pow2(16 - n)),
         (x[2] % Pow2(16 - n)) * Pow2(n) + (x[1] \div Pow2(16 - n)))
ROTL32(v, n) == IF n >= 16 THEN Rot16(W(v[2], v[1]), n - 16) ELSE Rot16(v, n)

constants ==
  [i \in 0..15 |->
     <<W(27145, 58983), W(47975, 44677), W(15470, 62322), W(42319, 62778),
       W(20750, 21119), W(39685, 26764), W(8067, 55723),  W(23520, 52505),
       W(49413, 40664), W(13948, 54535), W(12400, 56599), W(63246, 22841),
       W(65472, 2865),  W(26712, 5393),  W(25849, 36775), W(48890, 20388)>>[i + 1]]

\* Statements run one after the other: Bind(x, F) is F applied to the value of x.
Bind(x, F(_)) == CHOOSE r \in {F(v) : v \in {x}} : TRUE

\* Op(s, k) applied to s for k = lo, lo + 1, ..., hi in that order, lo <= hi:
\* the first half of the steps, then the second half on their result.
RECURSIVE Steps(_, _, _, _)
Steps(Op(_, _), s, lo, hi) ==
  IF lo = hi THEN Op(s, lo)
  ELSE CHOOSE r \in {Steps(Op, t, ((lo + hi) \div 2) + 1, hi) :
                       t \in {Steps(Op, s, lo, (lo + hi) \div 2)}} : TRUE

\* A for loop: for (k = lo; k <= hi; k++) s = Op(s, k)
Loop(Op(_, _), s, lo, hi) == IF lo > hi THEN s ELSE Steps(Op, s, lo, hi)

\* (uint32_t)(i * c) for a small int i
RECURSIVE MUL32(_, _)
MUL32(i, c) == IF i = 0 THEN Zero32 ELSE ADD32(c, MUL32(i - 1, c))

\* round2(&s[ia], &s[ib]), statement by statement; r = <<*a, *b>>
round2Stmt(r, k) ==
  CASE k = 1  -> <<ADD32(r[1], OR32(r[2], r[1])), r[2]>>
    [] k = 2  -> <<r[1], ADD32(r[2], OR32(r[2], r[1]))>>
    [] k = 3  -> <<ADD32(r[1], ROTL32(r[1], 13)), r[2]>>
    [] k = 4  -> <<r[1], ADD32(r[2], ROTL32(r[2], 14))>>
    [] k = 5  -> <<r[1], XOR32(r[2], ROTL32(r[2], 15))>>
    [] k = 6  -> <<ADD32(r[1], ROTL32(r[1], 26)), r[2]>>
    [] k = 7  -> <<ADD32(r[1], ROTL32(r[1], 11)), r[2]>>
    [] k = 8  -> <<r[1], ADD32(r[2], ROTL32(r[2], 10))>>
    [] k = 9  -> <<r[1], XOR32(r[2], ROTL32(ADD32(r[1], r[2]), 23))>>
    [] k = 10 -> <<XOR32(r[1], ROTL32(ADD32(r[2], r[1]), 10)), r[2]>>
round2(s, ia, ib) ==
  LET r == Loop(round2Stmt, <<s[ia], s[ib]>>, 1, 10)
  IN  [s EXCEPT ![ia] = r[1], ![ib] = r[2]]

\* add3(a, b, c), statement by statement; t = <<*a, *b, *c>>
add3Stmt(t, k) ==
  CASE k = 1 -> <<ADD32(t[1], ADD32(t[3], t[2])), t[2], t[3]>>
    [] k = 2 -> <<t[1], ADD32(t[2], ADD32(t[1], t[3])), t[3]>>
    [] k = 3 -> <<t[1], t[2], ADD32(t[3], ADD32(t[1], t[2]))>>
    [] k = 4 -> <<ADD32(t[1], ROTL32(t[3], 19)), t[2], t[3]>>
    [] k = 5 -> <<t[1], ADD32(t[2], ROTL32(t[1], 13)), t[3]>>
    [] k = 6 -> <<t[1], t[2], ADD32(t[3], ROTL32(t[2], 8))>>
add3(t) == Loop(add3Stmt, t, 1, 6)

\* round4(a, b, c, d), statement by statement; q = <<*a, *b, *c, *d>>
round4Stmt(q, k) ==
  CASE k = 1  -> <<ADD32(q[1], q[2]), q[2], q[3], q[4]>>
    [] k = 2  -> <<q[1], XOR32(q[2], q[4]), q[3], q[4]>>
    [] k = 3  -> <<q[1], ROTL32(q[2], 9), q[3], q[4]>>
    [] k = 4  -> <<ROTL32(q[1], 6), q[2], q[3], q[4]>>
    [] k = 5  -> <<q[1], q[2], ADD32(q[3], q[4]), q[4]>>
    [] k = 6  -> <<XOR32(q[1], q[3]), q[2], q[3], q[4]>>
    [] k = 7  -> <<q[1], q[2], q[3], ROTL32(q[4], 12)>>
    [] k = 8  -> <<q[1], q[2], ROTL32(q[3], 13), q[4]>>
    [] k = 9  -> <<ADD32(q[1], q[2]), q[2], q[3], q[4]>>
    [] k = 10 -> <<q[1], q[2], XOR32(q[3], q[4]), q[4]>>
    [] k = 11 -> <<q[1], ROTL32(q[4], 14), q[3], q[4]>>
    [] k = 12 -> <<ROTL32(q[1], 25), q[2], q[3], q[4]>>
    [] k = 13 -> <<q[1], q[2], ADD32(q[3], q[4]), q[4]>>
    [] k = 14 -> <<XOR32(q[1], q[2]), q[2], q[3], q[4]>>
    [] k = 15 -> <<q[1], q[2], q[3], ROTL32(q[2], 23)>>
    [] k = 16 -> <<q[1], q[2], ROTL32(q[3], 30), q[4]>>
round4(q) == Loop(round4Stmt, q, 1, 16)

\* round_matrix(a, b, c, d), call by call; q = <<*a, *b, *c, *d>>
round_matrixStmt(q, k) ==
  CASE k = 1 -> LET t == add3(<<q[2], q[3], q[1]>>) IN <<t[3], t[1], t[2], q[4]>>
    [] k = 2 -> LET t == add3(<<q[1], q[3], q[4]>>) IN <<t[1], q[2], t[2], t[3]>>
    [] k = 3 -> round4(q)
    [] k = 4 -> LET t == add3(<<q[2], q[4], q[1]>>) IN <<t[3], t[1], q[3], t[2]>>
    [] k = 5 -> LET t == add3(<<q[2], q[3], q[4]>>) IN <<q[1], t[1], t[2], t[3]>>
round_matrix(s, ia, ib, ic, id) ==
  LET q == Loop(round_matrixStmt, <<s[ia], s[ib], s[ic], s[id]>>, 1, 5)
  IN  [s EXCEPT ![ia] = q[1], ![ib] = q[2], ![ic] = q[3], ![id] = q[4]]

HalfPairs ==
  << <<0, 5>>, <<1, 6>>, <<2, 7>>, <<3, 4>>,
     <<4, 9>>, <<5, 10>>, <<6, 11>>, <<7, 8>>,
     <<8, 13>>, <<9, 14>>, <<10, 15>>, <<11, 12>>,
     <<12, 1>>, <<13, 2>>, <<14, 3>>, <<15, 0>> >>

MatrixQuads ==
  << <<0, 4, 8, 12>>, <<1, 5, 9, 13>>, <<2, 6, 10, 14>>, <<3, 7, 11, 15>>,
     <<0, 5, 10, 15>>, <<1, 6, 11, 12>>, <<2, 7, 8, 13>>, <<3, 4, 9, 14>> >>

\* the sixteen round2 calls of one half round
HalfRound(s) ==
  Loop(LAMBDA t, k : round2(t, HalfPairs[k][1], HalfPairs[k][2]),
       s, 1, Len(HalfPairs))

\* the eight round_matrix calls of one matrix round
MatrixRound(s) ==
  Loop(LAMBDA t, k : round_matrix(t, MatrixQuads[k][1], MatrixQuads[k][2],
                                     MatrixQuads[k][3], MatrixQuads[k][4]),
       s, 1, Len(MatrixQuads))

\* (mutant) the two source words exchanged
DiffuseWordSwapped(w, i) ==
  LET x == XOR32(w[i], ROTL32(w[(i + 3) % 16], 11))
      w1 == [w EXCEPT ![i] = x]
  IN  [w1 EXCEPT ![i] = ADD32(w1[i], ROTL32(w1[(i + 7) % 16], 17))]

\* one step of the sweep: words[i] ^= ROTL32(words[(i+7)%16], 11);
\*                        words[i] += ROTL32(words[(i+3)%16], 17);
DiffuseWord(w, i) ==
  LET x == XOR32(w[i], ROTL32(w[(i + 7) % 16], 11))
      w1 == [w EXCEPT ![i] = x]
  IN  [w1 EXCEPT ![i] = ADD32(w1[i], ROTL32(w1[(i + 3) % 16], 17))]

qrh_diffuse_words(w) ==
  Loop(LAMBDA t, i : DiffuseWord(t, i), w, 0, QRH_WORDS_SIZE - 1)

qrh_run_state(s) ==
  Bind(Loop(LAMBDA t, i : HalfRound(t), s, 0, QRH_HALF_ROUNDS - 1),
       LAMBDA s1 :
         Bind(Loop(LAMBDA t, i : MatrixRound(t), s1, 0, QRH_MATRIX_ROUNDS - 1),
              LAMBDA s2 :
                Loop(LAMBDA t, i : qrh_diffuse_words(t), s2, 0, QRH_DIFFUSIONS - 1)))


(***************************************************************************)
(* Word codec.  A byte buffer is a sequence of bytes; C index i is element *)
(* i + 1.  A read past the end of a buffer is recorded in the set of       *)
(* indices read; the value it yields is not used by any in-bounds run.     *)
(***************************************************************************)
ByteAt(buf, i) == IF i < Len(buf) THEN buf[i + 1] ELSE 0

read_u32_le(buf, offset) ==
  [val    |-> W(ByteAt(buf, offset + 3) * 256 + ByteAt(buf, offset + 2),
                ByteAt(buf, offset + 1) * 256 + ByteAt(buf, offset)),
   offset |-> offset + 4,
   reads  |-> offset .. (offset + 3)]

\* The partial read: n (1..3) bytes, missing high-order bytes zero, offset
\* advanced by the n bytes consumed.
PartByte(buf, offset, k, n) == IF k < n THEN ByteAt(buf, offset + k) ELSE 0
read_u32_le_dynamic(buf, offset, n) ==
  [val    |-> W(PartByte(buf, offset, 3, n) * 256 + PartByte(buf, offset, 2, n),
                PartByte(buf, offset, 1, n) * 256 + PartByte(buf, offset, 0, n)),
   offset |-> offset + n,
   reads  |-> offset .. (offset + n - 1)]

\* An output buffer is the map from the indices written so far to the bytes
\* written there.
EmptyOut == [j \in {} |-> 0]
\* (mutant) most significant byte first
wrno_u32_be(buf, base, val) ==
  [j \in (DOMAIN buf) \cup (base .. (base + 3)) |->
     IF j \in base .. (base + 3) THEN ByteOf(val, 3 - (j - base)) ELSE buf[j]]
wrno_u32_le(buf, base, val) ==
  [j \in (DOMAIN buf) \cup (base .. (base + 3)) |->
     IF j \in base .. (base + 3) THEN ByteOf(val, j - base) ELSE buf[j]]

(***************************************************************************)
(* qrh_256: the steps of the absorption loop as functions of the locals.   *)
(***************************************************************************)
ZeroWords == [i \in 0..(QRH_WORDS_SIZE - 1) |-> Zero32]

\* (mutant) the shift left out
SeedIndexNoShift(input_len) == input_len % QRH_CONSTANTS_SIZE
\* constants[(input_len << 8) % QRH_CONSTANTS_SIZE]
SeedIndex(input_len) == (input_len * Pow2(8)) % QRH_CONSTANTS_SIZE

BlockSize(input_len, offset) ==
  IF input_len - offset < QRH_BLOCK_SIZE THEN input_len - offset ELSE QRH_BLOCK_SIZE

\* (mutant) the word count rounded up
FullWordsRoundUp(block_size) == (block_size + 3) \div 4
FullWords(block_size) == block_size \div 4
PartialBlock(block_size) == block_size % 4

\* blocks[i] = read_u32_le(input, &buffer_offset)
FillWord(acc, input, i) ==
  LET r == read_u32_le(input, acc.buffer_offset)
  IN  [blocks        |-> [acc.blocks EXCEPT ![i] = r.val],
       buffer_offset |-> r.offset,
       reads         |-> acc.reads \cup r.reads,
       writes        |-> acc.writes \cup {i}]

FillBlocks(blks, input, offset, block_size) ==
  LET full == Loop(LAMBDA acc, i : FillWord(acc, input, i),
                   [blocks |-> blks, buffer_offset |-> offset,
                    reads |-> {}, writes |-> {}],
                   0, FullWords(block_size) - 1)
      r == read_u32_le_dynamic(input, full.buffer_offset, PartialBlock(block_size))
  IN  IF PartialBlock(block_size) # 0
      THEN [blocks        |-> [full.blocks EXCEPT ![FullWords(block_size)] = r.val],
            buffer_offset |-> r.offset,
            reads         |-> full.reads \cup r.reads,
            writes        |-> full.writes \cup {FullWords(block_size)}]
      ELSE full

\* state[i] ^= blocks[i] + ROTL32(blocks[(i + 1) % 16], i)
BlockMix(st, blks) ==
  [i \in 0..(QRH_WORDS_SIZE - 1) |->
     XOR32(st[i], ADD32(blks[i], ROTL32(blks[(i + 1) % 16], i)))]

\* ROTL32(input_len, 15) % 16 on a 64-bit size_t: (input_len << 15) has its
\* low four bits clear, so the low four bits are those of input_len >> 17.
LenRot15Mod16(input_len) == (input_len \div Pow2(17)) % 16

\* (mutant) the iteration also XORs the word after words[x]
InjectIterTwoWords(a, input_len, block_index, i) ==
  LET idx_seed == XOR32(XOR32(XOR32(a.combined, ROTL32(a.schema, 11)),
                              ROTL32(XOR32(U32(block_index), a.combined), 23)),
                        MUL32(i, constants[((i + 1) * LenRot15Mod16(input_len))
                                           % QRH_CONSTANTS_SIZE]))
      x0 == idx_seed[2] % QRH_WORDS_SIZE
      x  == (x0 + i) % QRH_WORDS_SIZE
      y  == (x + 1) % QRH_WORDS_SIZE
      wx == XOR32(a.words[x], ROTL32(a.combined, 9))
      wy == XOR32(a.words[y], ROTL32(a.combined, 9))
      s1 == ADD32(a.schema, wx)
      s2 == XOR32(s1, wx)
      s3 == ROTL32(s2, 19)
  IN  [words    |-> [a.words EXCEPT ![x] = wx, ![y] = wy],
       schema   |-> s3,
       combined |-> XOR32(a.combined, s3),
       touched  |-> Append(a.touched, x)]

\* one iteration of the loop of lines 232-248; touched lists the indices x
\* of the words written so far
InjectIter(a, input_len, block_index, i) ==
  LET idx_seed == XOR32(XOR32(XOR32(a.combined, ROTL32(a.schema, 11)),
                              ROTL32(XOR32(U32(block_index), a.combined), 23)),
                        MUL32(i, constants[((i + 1) * LenRot15Mod16(input_len))
                                           % QRH_CONSTANTS_SIZE]))
      x0 == idx_seed[2] % QRH_WORDS_SIZE
      x  == (x0 + i) % QRH_WORDS_SIZE
      wx == XOR32(a.words[x], ROTL32(a.combined, 9))
      s1 == ADD32(a.schema, wx)
      s2 == XOR32(s1, wx)
      s3 == ROTL32(s2, 19)
  IN  [words    |-> [a.words EXCEPT ![x] = wx],
       schema   |-> s3,
       combined |-> XOR32(a.combined, s3),
       touched  |-> Append(a.touched, x)]


\* bit_len = (uint64_t)input_len * 8; len_lo its low and len_hi its high 32 bits
qrh_length_inject(words, input_len, block_index, sch) ==
  LET len_lo == SHL32(U32(input_len), 3)
      len_hi == U32(input_len \div Pow2(29))
      blk    == U32(block_index)
      c0 == XOR32(XOR32(XOR32(sch, ROTL32(blk, 22)), ROTL32(len_lo, 17)),
                  ROTL32(len_hi, 13))
      s0 == XOR32(sch, c0)
      c1 == ADD32(c0, s0)
  IN  Loop(LAMBDA a, i : InjectIter(a, input_len, block_index, i),
           [words |-> words, schema |-> s0, combined |-> c1, touched |-> <<>>],
           0, 3)

\* state[i] ^= ROTL32(input_len << (((i * 5 + 7) % 16) + 10), 6), i = 0, 4, 8, 12.
\* The macro is expanded on a size_t (64 bits): ((x << 6) | (x >> 26)) with
\* x = input_len << shift, then truncated to 32 bits by the assignment.
WhitenShift(i) == ((i * 5 + 7) % 16) + 10
WhitenWord(input_len, i) ==
  OR32(SHL32(U32(input_len), WhitenShift(i) + 6),
       U32(input_len \div Pow2(26 - WhitenShift(i))))
WhitenState(st, input_len) ==
  [i \in 0..(QRH_WORDS_SIZE - 1) |->
     IF i % 4 = 0 THEN XOR32(st[i], WhitenWord(input_len, i)) ELSE st[i]]

qrh_finalize(words, buf) ==
  Loop(LAMBDA b, i : wrno_u32_le(b, i * 4, words[i]), buf, 0, (QRH_HASH_SIZE \div 4) - 1)

\* one pass of the loop body, lines 144-162, on the locals c
AbsorbChunk(c, input) ==
  Bind(FillBlocks(c.blocks, input, c.offset, BlockSize(Len(input), c.offset)),
       LAMBDA f :
         Bind(qrh_length_inject(BlockMix(c.state, f.blocks), Len(input), c.offset,
                                c.schema),
              LAMBDA j : [offset |-> f.buffer_offset, state |-> qrh_run_state(j.words),
                          blocks |-> f.blocks, schema |-> j.schema]))

\* while (offset < input_len), lines 143-163
RECURSIVE Absorb(_, _)
Absorb(c, input) ==
  IF c.offset < Len(input)
  THEN CHOOSE r \in {Absorb(d, input) : d \in {AbsorbChunk(c, input)}} : TRUE
  ELSE c

\* One uninterrupted run of qrh_256 on a buffer: the bytes it leaves in out.
qrh_256(input) ==
  Bind(Absorb([offset |-> 0, state |-> constants, blocks |-> ZeroWords,
               schema |-> constants[SeedIndex(Len(input))]], input),
       LAMBDA c : qrh_finalize(WhitenState(c.state, Len(input)), EmptyOut))

(***************************************************************************)
(* Bounds of the model and the inputs drawn from them.                     *)
(***************************************************************************)
MaxLen == 130
MaxFill == 1
MaxConcLen == 1
MaxKeyLen == 66
MaxMsgLen == 2
MaxRot == 3

\* a buffer of len bytes, byte i = (f + (f + 2) * i) mod 256
GenInput(len, f) == [i \in 1..len |-> (f + (f + 2) * (i - 1)) % 256]
Zeros(len) == [i \in 1..len |-> 0]

Inputs == {GenInput(len, f) : len \in 0..MaxLen, f \in 1..MaxFill}
ConcInputs == {GenInput(len, 1) : len \in (0..MaxConcLen) \cup {QRH_BLOCK_SIZE + 1}}
KeyLens == {k \in 0..MaxKeyLen : k < 2 \/ k >= QRH_BLOCK_SIZE - 1}
DiffuseInputs ==
  {[i \in 0..(QRH_WORDS_SIZE - 1) |-> constants[(i + r) % QRH_CONSTANTS_SIZE]] :
     r \in 0..MaxRot}

(***************************************************************************)
(* State.  Procs are the invocations of qrh_256 that may be in progress;   *)
(* each has its own parameters and locals.  reads, writes, log and         *)
(* schema_exit record what an invocation has done so far.                  *)
(***************************************************************************)
Procs == {1, 2}

VARIABLES
  pc, input, out, offset, buffer_offset, block_size, state, blocks, schema,
  reads, writes, log, schema_exit,
  hpc, key, bytes, key_block, in_padding, out_padding, heap, ptr, ret, uaf,
  dwords, dpre, di, dsweep

hashVars == <<pc, input, out, offset, buffer_offset, block_size, state, blocks,
              schema, reads, writes, log, schema_exit>>
hmacVars == <<hpc, key, bytes, key_block, in_padding, out_padding, heap, ptr,
              ret, uaf>>
diffVars == <<dwords, dpre, di, dsweep>>
vars == <<hashVars, hmacVars, diffVars>>

\* (mutant) the locals with static storage: one copy for all invocations
SharedFrame(p) == 1
\* uint32_t state[16], blocks[16] and schema are automatic variables of
\* qrh_256: each invocation has its own.
Frame(p) == p

\* (mutant) the memcpy of the constant table into state left out
EnterNoCopy(p) ==
  /\ pc[p] = "entry"
  /\ offset' = [offset EXCEPT ![p] = 0]
  /\ state' = [state EXCEPT ![Frame(p)] = ZeroWords]
  /\ blocks' = [blocks EXCEPT ![Frame(p)] = ZeroWords]
  /\ schema' = [schema EXCEPT ![Frame(p)] = constants[SeedIndex(Len(input[p]))]]
  /\ reads' = [reads EXCEPT ![p] = {}]
  /\ writes' = [writes EXCEPT ![p] = {}]
  /\ log' = [log EXCEPT ![p] = <<>>]
  /\ schema_exit' = [schema_exit EXCEPT ![p] = Zero32]
  /\ pc' = [pc EXCEPT ![p] = "loop"]
  /\ UNCHANGED <<input, out, buffer_offset, block_size, hmacVars, diffVars>>

\* lines 134-141
Enter(p) ==
  /\ pc[p] = "entry"
  /\ offset' = [offset EXCEPT ![p] = 0]
  /\ state' = [state EXCEPT ![Frame(p)] = constants]
  /\ blocks' = [blocks EXCEPT ![Frame(p)] = ZeroWords]
  /\ schema' = [schema EXCEPT ![Frame(p)] = constants[SeedIndex(Len(input[p]))]]
  /\ reads' = [reads EXCEPT ![p] = {}]
  /\ writes' = [writes EXCEPT ![p] = {}]
  /\ log' = [log EXCEPT ![p] = <<>>]
  /\ schema_exit' = [schema_exit EXCEPT ![p] = Zero32]
  /\ pc' = [pc EXCEPT ![p] = "loop"]
  /\ UNCHANGED <<input, out, buffer_offset, block_size, hmacVars, diffVars>>

\* (mutant) schema seeded inside the loop, once per chunk
LoopTestReseed(p) ==
  /\ pc[p] = "loop"
  /\ IF offset[p] < Len(input[p])
     THEN /\ block_size' = [block_size EXCEPT ![p] = BlockSize(Len(input[p]), offset[p])]
          /\ buffer_offset' = [buffer_offset EXCEPT ![p] = offset[p]]
          /\ schema' = [schema EXCEPT ![Frame(p)] = constants[SeedIndex(Len(input[p]))]]
          /\ pc' = [pc EXCEPT ![p] = "fill"]
     ELSE /\ pc' = [pc EXCEPT ![p] = "whiten"]
          /\ UNCHANGED <<block_size, buffer_offset, schema>>
  /\ UNCHANGED <<input, out, offset, state, blocks, reads, writes, log,
                 schema_exit, hmacVars, diffVars>>

\* lines 143-148
LoopTest(p) ==
  /\ pc[p] = "loop"
  /\ IF offset[p] < Len(input[p])
     THEN /\ block_size' = [block_size EXCEPT ![p] = BlockSize(Len(input[p]), offset[p])]
          /\ buffer_offset' = [buffer_offset EXCEPT ![p] = offset[p]]
          /\ pc' = [pc EXCEPT ![p] = "fill"]
     ELSE /\ pc' = [pc EXCEPT ![p] = "whiten"]
          /\ UNCHANGED <<block_size, buffer_offset>>
  /\ UNCHANGED <<input, out, offset, state, blocks, schema, reads, writes, log,
                 schema_exit, hmacVars, diffVars>>

\* lines 150-154
Fill(p) ==
  /\ pc[p] = "fill"
  /\ LET f == FillBlocks(blocks[Frame(p)], input[p], buffer_offset[p], block_size[p])
     IN  /\ blocks' = [blocks EXCEPT ![Frame(p)] = f.blocks]
         /\ buffer_offset' = [buffer_offset EXCEPT ![p] = f.buffer_offset]
         /\ reads' = [reads EXCEPT ![p] = @ \cup f.reads]
         /\ writes' = [writes EXCEPT ![p] = @ \cup f.writes]
  /\ pc' = [pc EXCEPT ![p] = "mix"]
  /\ UNCHANGED <<input, out, offset, block_size, state, schema, log, schema_exit,
                 hmacVars, diffVars>>

\* lines 156-157
Mix(p) ==
  /\ pc[p] = "mix"
  /\ state' = [state EXCEPT ![Frame(p)] = BlockMix(@, blocks[Frame(p)])]
  /\ log' = [log EXCEPT ![p] = Append(@, <<"mix", block_size[p]>>)]
  /\ pc' = [pc EXCEPT ![p] = "inject"]
  /\ UNCHANGED <<input, out, offset, buffer_offset, block_size, blocks, schema,
                 reads, writes, schema_exit, hmacVars, diffVars>>

\* line 159
Inject(p) ==
  /\ pc[p] = "inject"
  /\ LET j == qrh_length_inject(state[Frame(p)], Len(input[p]), offset[p],
                                schema[Frame(p)])
     IN  /\ state' = [state EXCEPT ![Frame(p)] = j.words]
         /\ schema' = [schema EXCEPT ![Frame(p)] = j.schema]
         /\ schema_exit' = [schema_exit EXCEPT ![p] = j.schema]
  /\ log' = [log EXCEPT ![p] = Append(@, <<"inject", offset[p]>>)]
  /\ pc' = [pc EXCEPT ![p] = "permute"]
  /\ UNCHANGED <<input, out, offset, buffer_offset, block_size, blocks, reads,
                 writes, hmacVars, diffVars>>

\* line 160
Permute(p) ==
  /\ pc[p] = "permute"
  /\ state' = [state EXCEPT ![Frame(p)] = qrh_run_state(@)]
  /\ log' = [log EXCEPT ![p] = Append(@, <<"permute">>)]
  /\ pc' = [pc EXCEPT ![p] = "advance"]
  /\ UNCHANGED <<input, out, offset, buffer_offset, block_size, blocks, schema,
                 reads, writes, schema_exit, hmacVars, diffVars>>

\* (mutant) the offset advanced by a whole block whatever was consumed
AdvanceFullBlock(p) ==
  /\ pc[p] = "advance"
  /\ offset' = [offset EXCEPT ![p] = @ + QRH_BLOCK_SIZE]
  /\ log' = [log EXCEPT ![p] = Append(@, <<"advance", offset[p] + QRH_BLOCK_SIZE>>)]
  /\ pc' = [pc EXCEPT ![p] = "loop"]
  /\ UNCHANGED <<input, out, buffer_offset, block_size, state, blocks, schema,
                 reads, writes, schema_exit, hmacVars, diffVars>>

\* line 162
Advance(p) ==
  /\ pc[p] = "advance"
  /\ offset' = [offset EXCEPT ![p] = buffer_offset[p]]
  /\ log' = [log EXCEPT ![p] = Append(@, <<"advance", buffer_offset[p]>>)]
  /\ pc' = [pc EXCEPT ![p] = "loop"]
  /\ UNCHANGED <<input, out, buffer_offset, block_size, state, blocks, schema,
                 reads, writes, schema_exit, hmacVars, diffVars>>

\* lines 165-166
Whiten(p) ==
  /\ pc[p] = "whiten"
  /\ state' = [state EXCEPT ![Frame(p)] = WhitenState(@, Len(input[p]))]
  /\ pc' = [pc EXCEPT ![p] = "finalize"]
  /\ UNCHANGED <<input, out, offset, buffer_offset, block_size, blocks, schema,
                 reads, writes, log, schema_exit, hmacVars, diffVars>>

\* line 168
Finalize(p) ==
  /\ pc[p] = "finalize"
  /\ out' = [out EXCEPT ![p] = qrh_finalize(state[Frame(p)], @)]
  /\ pc' = [pc EXCEPT ![p] = "done"]
  /\ UNCHANGED <<input, offset, buffer_offset, block_size, state, blocks, schema,
                 reads, writes, log, schema_exit, hmacVars, diffVars>>

HashNext ==
  \E p \in Procs :
    \/ Enter(p)
    \/ LoopTest(p)
    \/ Fill(p)
    \/ Mix(p)
    \/ Inject(p)
    \/ Permute(p)
    \/ Advance(p)
    \/ Whiten(p)
    \/ Finalize(p)

\* no invocation of qrh_256 in progress, except the ones in started
HashInit(started) ==
  /\ pc = [p \in Procs |-> IF p \in started THEN "entry" ELSE "idle"]
  /\ out = [p \in Procs |-> EmptyOut]
  /\ offset = [p \in Procs |-> 0]
  /\ buffer_offset = [p \in Procs |-> 0]
  /\ block_size = [p \in Procs |-> 0]
  /\ state = [p \in Procs |-> ZeroWords]
  /\ blocks = [p \in Procs |-> ZeroWords]
  /\ schema = [p \in Procs |-> Zero32]
  /\ reads = [p \in Procs |-> {}]
  /\ writes = [p \in Procs |-> {}]
  /\ log = [p \in Procs |-> <<>>]
  /\ schema_exit = [p \in Procs |-> Zero32]

NullPtrs == [key_hash |-> 0, inner_data |-> 0, inner_hash |-> 0, outer_data |-> 0,
             hmac_hash |-> 0, hash |-> 0]

HmacIdle ==
  /\ hpc = "idle"
  /\ key = <<>>
  /\ bytes = <<>>
  /\ key_block = <<>>
  /\ in_padding = <<>>
  /\ out_padding = <<>>
  /\ heap = <<>>
  /\ ptr = NullPtrs
  /\ ret = 0
  /\ uaf = FALSE

DiffIdle ==
  /\ dwords = ZeroWords
  /\ dpre = ZeroWords
  /\ di = QRH_WORDS_SIZE
  /\ dsweep = QRH_DIFFUSIONS

(***************************************************************************)
(* The heap.  calloc appends a zeroed, live block and returns its address  *)
(* (its position; 0 is NULL); free marks it dead and counts the call.  An  *)
(* access to a block that is not live sets uaf.                            *)
(***************************************************************************)
Calloc(h, size) == Append(h, [data |-> Zeros(size), live |-> TRUE, frees |-> 0])
Free(h, a) == [h EXCEPT ![a].live = FALSE, ![a].frees = @ + 1]
Live(h, a) == a \in 1..Len(h) /\ h[a].live

\* memcpy(dst + at, src, n)
Memcpy(dst, at, src, n) ==
  [i \in 1..Len(dst) |->
     IF i - 1 \in at .. (at + n - 1) THEN ByteAt(src, i - 1 - at) ELSE dst[i]]

\* the bytes qrh_256 wrote, laid over the buffer they were written into
Overlay(buf, written) ==
  [i \in 1..Len(buf) |-> IF i - 1 \in DOMAIN written THEN written[i - 1] ELSE buf[i]]

\* qrh_alloc_256, lines 172 and 174 up to the call: the result buffer is
\* allocated and qrh_256 is entered on the input.
\* src is the heap address of the input, 0 when the input is the caller's.
AllocCall(data, src, next) ==
  /\ pc[1] = "idle"
  /\ heap' = Calloc(heap, QRH_HASH_SIZE)
  /\ ptr' = [ptr EXCEPT !.hash = Len(heap) + 1]
  /\ uaf' = (uaf \/ (src # 0 /\ ~Live(heap, src)))
  /\ input' = [input EXCEPT ![1] = data]
  /\ out' = [out EXCEPT ![1] = EmptyOut]
  /\ pc' = [pc EXCEPT ![1] = "entry"]
  /\ hpc' = next
  /\ UNCHANGED <<offset, buffer_offset, block_size, state, blocks, schema, reads,
                 writes, log, schema_exit, key, bytes, key_block, in_padding,
                 out_padding, ret, diffVars>>

\* qrh_alloc_256, lines 174-175: qrh_256 has returned; the buffer holds the
\* digest and its address is returned.  which is the pointer assigned.
AllocReturn(which, next) ==
  /\ pc[1] = "done"
  /\ heap' = [heap EXCEPT ![ptr.hash].data = Overlay(@, out[1])]
  /\ ptr' = [ptr EXCEPT ![which] = ptr.hash, !.hash = 0]
  /\ pc' = [pc EXCEPT ![1] = "idle"]
  /\ hpc' = next
  /\ UNCHANGED <<input, out, offset, buffer_offset, block_size, state, blocks,
                 schema, reads, writes, log, schema_exit, key, bytes, key_block,
                 in_padding, out_padding, ret, uaf, diffVars>>

HmacFrame == <<hashVars, key, bytes, diffVars>>

\* (mutant) a key of exactly the block size hashed as well
HStartHashAt64 ==
  /\ hpc = "start"
  /\ key_block' = Zeros(QRH_BLOCK_SIZE)
  /\ in_padding' = Zeros(QRH_BLOCK_SIZE)
  /\ out_padding' = Zeros(QRH_BLOCK_SIZE)
  /\ hpc' = IF Len(key) >= QRH_BLOCK_SIZE THEN "key_call" ELSE "key_copy"
  /\ UNCHANGED <<HmacFrame, heap, ptr, ret, uaf>>

\* lines 179-183
HStart ==
  /\ hpc = "start"
  /\ key_block' = Zeros(QRH_BLOCK_SIZE)
  /\ in_padding' = Zeros(QRH_BLOCK_SIZE)
  /\ out_padding' = Zeros(QRH_BLOCK_SIZE)
  /\ hpc' = IF Len(key) > QRH_BLOCK_SIZE THEN "key_call" ELSE "key_copy"
  /\ UNCHANGED <<HmacFrame, heap, ptr, ret, uaf>>

\* line 184
HKeyHashCall == hpc = "key_call" /\ AllocCall(key, 0, "key_wait")
HKeyHashReturn == hpc = "key_wait" /\ AllocReturn("key_hash", "key_memcpy")

\* line 186
HKeyMemcpy ==
  /\ hpc = "key_memcpy"
  /\ key_block' = Memcpy(key_block, 0, heap[ptr.key_hash].data, QRH_HASH_SIZE)
  /\ uaf' = (uaf \/ ~Live(heap, ptr.key_hash))
  /\ hpc' = "key_free"
  /\ UNCHANGED <<HmacFrame, in_padding, out_padding, heap, ptr, ret>>

\* line 187
HKeyFree ==
  /\ hpc = "key_free"
  /\ heap' = Free(heap, ptr.key_hash)
  /\ hpc' = "pads"
  /\ UNCHANGED <<HmacFrame, key_block, in_padding, out_padding, ptr, ret, uaf>>

\* line 189
HKeyCopy ==
  /\ hpc = "key_copy"
  /\ key_block' = Memcpy(key_block, 0, key, Len(key))
  /\ hpc' = "pads"
  /\ UNCHANGED <<HmacFrame, in_padding, out_padding, heap, ptr, ret, uaf>>

\* lines 192-195
HPads ==
  /\ hpc = "pads"
  /\ out_padding' = [i \in 1..QRH_BLOCK_SIZE |-> XOR16(key_block[i], 92)]
  /\ in_padding' = [i \in 1..QRH_BLOCK_SIZE |-> XOR16(key_block[i], 54)]
  /\ hpc' = "inner_data"
  /\ UNCHANGED <<HmacFrame, key_block, heap, ptr, ret, uaf>>

\* lines 197-199
HInnerData ==
  /\ hpc = "inner_data"
  /\ LET h == Calloc(heap, QRH_BLOCK_SIZE + Len(bytes))
         a == Len(h)
         d == Memcpy(Memcpy(h[a].data, 0, in_padding, QRH_BLOCK_SIZE),
                     QRH_BLOCK_SIZE, bytes, Len(bytes))
     IN  /\ heap' = [h EXCEPT ![a].data = d]
         /\ ptr' = [ptr EXCEPT !.inner_data = a]
  /\ hpc' = "inner_call"
  /\ UNCHANGED <<HmacFrame, key_block, in_padding, out_padding, ret, uaf>>

\* line 201
HInnerHashCall ==
  /\ hpc = "inner_call"
  /\ AllocCall(heap[ptr.inner_data].data, ptr.inner_data, "inner_wait")
HInnerHashReturn == hpc = "inner_wait" /\ AllocReturn("inner_hash", "outer_data")

\* lines 203-205
HOuterData ==
  /\ hpc = "outer_data"
  /\ LET h == Calloc(heap, QRH_BLOCK_SIZE + QRH_HASH_SIZE)
         a == Len(h)
         d == Memcpy(Memcpy(h[a].data, 0, out_padding, QRH_BLOCK_SIZE),
                     QRH_BLOCK_SIZE, heap[ptr.inner_hash].data, QRH_HASH_SIZE)
     IN  /\ heap' = [h EXCEPT ![a].data = d]
         /\ ptr' = [ptr EXCEPT !.outer_data = a]
  /\ uaf' = (uaf \/ ~Live(heap, ptr.inner_hash))
  /\ hpc' = "outer_call"
  /\ UNCHANGED <<HmacFrame, key_block, in_padding, out_padding, ret>>

\* line 207
HOuterHashCall ==
  /\ hpc = "outer_call"
  /\ AllocCall(heap[ptr.outer_data].data, ptr.outer_data, "outer_wait")
HOuterHashReturn == hpc = "outer_wait" /\ AllocReturn("hmac_hash", "free_inner_hash")

\* line 209
HFreeInnerHash ==
  /\ hpc = "free_inner_hash"
  /\ heap' = Free(heap, ptr.inner_hash)
  /\ hpc' = "free_inner_data"
  /\ UNCHANGED <<HmacFrame, key_block, in_padding, out_padding, ptr, ret, uaf>>

\* (mutant) inner_hash freed a second time in place of inner_data
HFreeInnerHashTwice ==
  /\ hpc = "free_inner_data"
  /\ heap' = Free(heap, ptr.inner_hash)
  /\ hpc' = "free_outer_data"
  /\ UNCHANGED <<HmacFrame, key_block, in_padding, out_padding, ptr, ret, uaf>>

\* line 210
HFreeInnerData ==
  /\ hpc = "free_inner_data"
  /\ heap' = Free(heap, ptr.inner_data)
  /\ hpc' = "free_outer_data"
  /\ UNCHANGED <<HmacFrame, key_block, in_padding, out_padding, ptr, ret, uaf>>

\* line 211
HFreeOuterData ==
  /\ hpc = "free_outer_data"
  /\ heap' = Free(heap, ptr.outer_data)
  /\ hpc' = "return"
  /\ UNCHANGED <<HmacFrame, key_block, in_padding, out_padding, ptr, ret, uaf>>

\* line 213
HReturn ==
  /\ hpc = "return"
  /\ ret' = ptr.hmac_hash
  /\ hpc' = "done"
  /\ UNCHANGED <<HmacFrame, key_block, in_padding, out_padding, heap, ptr, uaf>>

\* calloc returns NULL (lines 172, 197, 203); the result is not checked and
\* the next statement writes through it: the call does not return.
HAllocFail ==
  /\ hpc \in {"key_call", "inner_data", "inner_call", "outer_data", "outer_call"}
  /\ hpc' = "fault"
  /\ UNCHANGED <<HmacFrame, key_block, in_padding, out_padding, heap, ptr, ret, uaf>>

HmacNext ==
  \/ HStart
  \/ HKeyHashCall
  \/ HKeyHashReturn
  \/ HKeyMemcpy
  \/ HKeyFree
  \/ HKeyCopy
  \/ HPads
  \/ HInnerData
  \/ HInnerHashCall
  \/ HInnerHashReturn
  \/ HOuterData
  \/ HOuterHashCall
  \/ HOuterHashReturn
  \/ HFreeInnerHash
  \/ HFreeInnerData
  \/ HFreeOuterData
  \/ HReturn
  \/ HAllocFail

(***************************************************************************)
(* One diffusion sweep, word by word, and the sweeps of qrh_run_state      *)
(* (lines 288-289) one after the other.  dpre is the array as it was when  *)
(* the current sweep began, di the next word to update.                    *)
(***************************************************************************)
DiffuseStep ==
  /\ di < QRH_WORDS_SIZE
  /\ dwords' = DiffuseWord(dwords, di)
  /\ di' = di + 1
  /\ UNCHANGED <<dpre, dsweep, hashVars, hmacVars>>

NextSweep ==
  /\ di = QRH_WORDS_SIZE
  /\ dsweep + 1 < QRH_DIFFUSIONS
  /\ dpre' = dwords
  /\ di' = 0
  /\ dsweep' = dsweep + 1
  /\ UNCHANGED <<dwords, hashVars, hmacVars>>

DiffNext == DiffuseStep \/ NextSweep

(***************************************************************************)
(* Specifications.                                                         *)
(***************************************************************************)
InputOf(b1, b2) == [p \in Procs |-> IF p = 1 THEN b1 ELSE b2]

\* One call of qrh_256 on any input.
Init ==
  /\ HashInit({1})
  /\ input \in {InputOf(b, <<>>) : b \in Inputs}
  /\ HmacIdle
  /\ DiffIdle
Next == HashNext
Spec == Init /\ [][Next]_vars

\* Two calls of qrh_256 on two threads, their steps interleaved.
InitConc ==
  /\ HashInit(Procs)
  /\ input \in {InputOf(b1, b2) : b1 \in ConcInputs, b2 \in ConcInputs}
  /\ HmacIdle
  /\ DiffIdle
NextConc == HashNext
SpecConc == InitConc /\ [][NextConc]_vars

\* One call of qrh_256_hmac on any key and message.
InitHmac ==
  /\ HashInit({})
  /\ input = InputOf(<<>>, <<>>)
  /\ hpc = "start"
  /\ \E kl \in KeyLens, ml \in 0..MaxMsgLen, f \in 1..MaxFill :
        /\ key = GenInput(kl, f)
        /\ bytes = GenInput(ml, f + 1)
  /\ key_block = <<>>
  /\ in_padding = <<>>
  /\ out_padding = <<>>
  /\ heap = <<>>
  /\ ptr = NullPtrs
  /\ ret = 0
  /\ uaf = FALSE
  /\ DiffIdle
NextHmac == HmacNext \/ HashNext
SpecHmac == InitHmac /\ [][NextHmac]_vars

\* The diffusion sweeps of one permutation on any word array.
InitDiffuse ==
  /\ HashInit({})
  /\ input = InputOf(<<>>, <<>>)
  /\ HmacIdle
  /\ dwords \in DiffuseInputs
  /\ dpre = dwords
  /\ di = 0
  /\ dsweep = 0
NextDiffuse == DiffNext
SpecDiffuse == InitDiffuse /\ [][NextDiffuse]_vars

(***************************************************************************)
(* Properties.                                                             *)
(***************************************************************************)
CeilDiv(a, b) == (a + b - 1) \div b
Running(p) == pc[p] \notin {"idle", "entry"}
Seed(p) == constants[SeedIndex(Len(input[p]))]

\* C1: at the start of the block mix of every chunk, every block-buffer word
\* beyond those populated from the current chunk (word j, j >= ceil(n/4) for
\* a chunk of n bytes) is zero.
C1_BlocksZeroBeyondChunk ==
  \A p \in Procs :
    pc[p] = "mix" =>
      \A j \in 0..(QRH_WORDS_SIZE - 1) :
        j >= CeilDiv(block_size[p], 4) => blocks[p][j] = Zero32

\* the digest of a buffer as a byte sequence
DigestSeq(b) == Bind(qrh_256(b), LAMBDA d : [i \in 1..QRH_HASH_SIZE |-> d[i - 1]])
KeyBlockOf(k) ==
  IF Len(k) > QRH_BLOCK_SIZE
  THEN DigestSeq(k) \o Zeros(QRH_BLOCK_SIZE - QRH_HASH_SIZE)
  ELSE k \o Zeros(QRH_BLOCK_SIZE - Len(k))
PadOf(kb, c) == [i \in 1..QRH_BLOCK_SIZE |-> XOR16(kb[i], c)]
\* hash(out_pad || hash(in_pad || m)) for key k
TagOf(k, m) ==
  Bind(KeyBlockOf(k),
       LAMBDA kb :
         Bind(DigestSeq(PadOf(kb, 54) \o m),
              LAMBDA inner : DigestSeq(PadOf(kb, 92) \o inner)))

\* C2: qrh_256_hmac returns hash(out_pad || hash(in_pad || message)), the
\* pads being the key block XOR 0x5c and 0x36, the key block the key zero
\* padded to 64 bytes, or its hash zero padded when the key is longer than
\* 64 bytes.
C2_HmacComposition ==
  hpc = "done" =>
    /\ Live(heap, ret)
    /\ heap[ret].data = TagOf(key, bytes)
C2_Witness ==
  /\ hpc = "done"
  /\ Len(key) = QRH_BLOCK_SIZE
  /\ Len(heap) = 4
  /\ key_block = key

\* C3: qrh_256 writes exactly out[0..31], and only when it finalizes; the
\* bytes are state words 0..7 in order, least significant byte first.
C3_DigestBytes ==
  \A p \in Procs :
    /\ pc[p] \in {"entry", "loop", "fill", "mix", "inject", "permute", "advance",
                  "whiten", "finalize"} => DOMAIN out[p] = {}
    /\ pc[p] = "done" =>
         /\ DOMAIN out[p] = 0..(QRH_HASH_SIZE - 1)
         /\ \A i \in 0..7 :
              /\ out[p][4 * i] + 256 * out[p][4 * i + 1] = state[p][i][2]
              /\ out[p][4 * i + 2] + 256 * out[p][4 * i + 3] = state[p][i][1]
C3_Witness ==
  /\ pc[1] = "done"
  /\ Len(input[1]) = 0
  /\ DOMAIN out[1] = 0..31

\* C4: for zero-length input the loop is never entered (no block mix, no
\* length injection, no permutation), the whitening pass XORs 0 into words
\* 0, 4, 8, 12, and the digest is constant-table words 0..7, least
\* significant byte first.
C4_EmptyInput ==
  \A p \in Procs :
    (Running(p) /\ Len(input[p]) = 0) =>
      /\ log[p] = <<>>
      /\ pc[p] \in {"loop", "whiten", "finalize", "done"}
      /\ state[p] = constants
      /\ \A i \in {0, 4, 8, 12} : WhitenWord(Len(input[p]), i) = Zero32
      /\ pc[p] = "done" =>
           \A i \in 0..7 :
             /\ out[p][4 * i] + 256 * out[p][4 * i + 1] = constants[i][2]
             /\ out[p][4 * i + 2] + 256 * out[p][4 * i + 3] = constants[i][1]
C4_Witness ==
  /\ pc[1] = "done"
  /\ Len(input[1]) = 0
  /\ out[1][0] = 103
  /\ out[1][31] = 91

TestLens == {0, 1, 3, 63, 64, 65, 127, 128, 129}

\* C5: for the lengths 0, 1, 3, 63, 64, 65, 127, 128, 129 every input index
\* read is below input_len and every block index written is in 0..15; the
\* bytes read up to a chunk's block mix are exactly the bytes up to the end
\* of that chunk, and a trailing partial word holds only the 1..3 bytes
\* left, its missing high-order bytes zero.
C5_AccessInBounds ==
  \A p \in Procs :
    (Running(p) /\ Len(input[p]) \in TestLens) =>
      /\ reads[p] \subseteq 0..(Len(input[p]) - 1)
      /\ writes[p] \subseteq 0..(QRH_WORDS_SIZE - 1)
      /\ pc[p] = "mix" =>
           /\ reads[p] = 0..(offset[p] + block_size[p] - 1)
           /\ buffer_offset[p] = offset[p] + block_size[p]
           /\ block_size[p] % 4 # 0 =>
                LET w == blocks[p][block_size[p] \div 4]
                    n == block_size[p] % 4
                    b == offset[p] + block_size[p] - n
                IN  /\ w[2] % 256 = input[p][b + 1]
                    /\ w[2] \div 256 = (IF n >= 2 THEN input[p][b + 2] ELSE 0)
                    /\ w[1] = (IF n = 3 THEN input[p][b + 3] ELSE 0)
C5_Witness ==
  /\ pc[1] = "mix"
  /\ Len(input[1]) = 129
  /\ offset[1] = 128
  /\ reads[1] = 0..128
  /\ writes[1] = 0..15

\* what each input hashes to when its call runs alone
AloneDigest == [b \in ConcInputs |-> qrh_256(b)]

\* C6: under any interleaving of the steps of two concurrent invocations
\* each produces the digest it produces when run alone, and two invocations
\* on identical input produce identical digests.
C6_Isolation ==
  /\ \A p \in Procs : pc[p] = "done" => out[p] = AloneDigest[input[p]]
  /\ (pc[1] = "done" /\ pc[2] = "done" /\ input[1] = input[2]) => out[1] = out[2]
C6_Witness ==
  /\ pc[1] = "done"
  /\ pc[2] = "done"
  /\ input[1] = input[2]
  /\ Len(input[1]) > QRH_BLOCK_SIZE
  /\ out[1] = out[2]

\* C7: on return from qrh_256_hmac every intermediate buffer has been freed
\* exactly once, none was used after being freed, and the returned 32-byte
\* buffer is the only allocation still live.
C7_HeapOwnership ==
  hpc = "done" =>
    /\ ~uaf
    /\ Len(heap) = (IF Len(key) > QRH_BLOCK_SIZE THEN 5 ELSE 4)
    /\ ret \in 1..Len(heap)
    /\ heap[ret].live
    /\ heap[ret].frees = 0
    /\ Len(heap[ret].data) = QRH_HASH_SIZE
    /\ \A a \in 1..Len(heap) : a # ret => (~heap[a].live /\ heap[a].frees = 1)
C7_Witness ==
  /\ hpc = "done"
  /\ Len(key) > QRH_BLOCK_SIZE
  /\ Len(heap) = 5
  /\ {a \in 1..Len(heap) : heap[a].live} = {ret}

Min(a, b) == IF a < b THEN a ELSE b
RECURSIVE ExpectedLog(_, _)
ExpectedLog(L, k) ==
  IF QRH_BLOCK_SIZE * k >= L THEN <<>>
  ELSE << <<"mix", Min(QRH_BLOCK_SIZE, L - QRH_BLOCK_SIZE * k)>>,
          <<"inject", QRH_BLOCK_SIZE * k>>,
          <<"permute">>,
          <<"advance", Min(QRH_BLOCK_SIZE * (k + 1), L)>> >>
       \o ExpectedLog(L, k + 1)
IsPrefix(s, t) == Len(s) <= Len(t) /\ SubSeq(t, 1, Len(s)) = s

\* C8: the loop ends after exactly ceil(L/64) iterations with offset = L;
\* iteration k does block mix, length injection, permutation, offset advance
\* in that order, on a chunk of min(64, L - 64k) bytes, with block index 64k.
C8_LoopOrder ==
  \A p \in Procs :
    Running(p) =>
      /\ IsPrefix(log[p], ExpectedLog(Len(input[p]), 0))
      /\ pc[p] \in {"whiten", "finalize", "done"} =>
           /\ log[p] = ExpectedLog(Len(input[p]), 0)
           /\ Len(log[p]) = 4 * CeilDiv(Len(input[p]), QRH_BLOCK_SIZE)
           /\ offset[p] = Len(input[p])
C8_Witness ==
  /\ pc[1] = "done"
  /\ Len(input[1]) = 129
  /\ Len(log[1]) = 12
  /\ log[1][10] = <<"inject", 128>>
  /\ offset[1] = 129

\* word i after a sweep that reads the two source words as given by src
SweepWord(pre, src(_), i) ==
  ADD32(XOR32(pre[i], ROTL32(src((i + 7) % 16), 11)), ROTL32(src((i + 3) % 16), 17))

\* C9 (as claimed): the update of word i reads words (i+7) mod 16 and (i+3)
\* mod 16 at their values from before the sweep began.
C9_SnapshotReads ==
  \A i \in 0..(di - 1) : dwords[i] = SweepWord(dpre, LAMBDA j : dpre[j], i)

\* C9 (amended): the update of word i reads words (i+7) mod 16 and (i+3) mod
\* 16 from the array as it stands then: the pre-sweep value when the source
\* index is above i, the value updated earlier in the same sweep when it is
\* below i (i >= 9 for the first source, i >= 13 for the second).
C9_SequentialReads ==
  \A i \in 0..(di - 1) :
    /\ dwords[i] = SweepWord(dpre, LAMBDA j : IF j > i THEN dpre[j] ELSE dwords[j], i)
    /\ ((i + 7) % 16 < i) = (i >= 9)
    /\ ((i + 3) % 16 < i) = (i >= 13)
C9_Witness ==
  /\ di = QRH_WORDS_SIZE
  /\ dwords[9] # SweepWord(dpre, LAMBDA j : dpre[j], 9)
  /\ dwords[0] # dpre[0]

\* C10: the schema is seeded once, before the loop, and only length
\* injection changes it afterwards: at every point of a call it is the seed
\* until the first length injection and from then on the value the last
\* length injection left, so chunk k+1's injection starts from chunk k's.
C10_SchemaCarried ==
  \A p \in Procs :
    Running(p) =>
      schema[p] = (IF Len(log[p]) >= 2 THEN schema_exit[p] ELSE Seed(p))
C10_Witness ==
  /\ pc[1] = "inject"
  /\ offset[1] = QRH_BLOCK_SIZE
  /\ schema[1] = schema_exit[1]
  /\ schema[1] # Seed(1)

ChangedWords(a, b) == {i \in 0..(QRH_WORDS_SIZE - 1) : a[i] # b[i]}
Range(s) == {s[k] : k \in 1..Len(s)}

\* C11: in every call of length injection each of the 4 iterations writes
\* exactly one state word, its index in 0..15, so the call changes at most 4
\* of the 16 state words and leaves every other word as it was.
C11_InjectWritesFour ==
  [][\A p \in Procs :
       (pc[p] = "inject" /\ pc'[p] = "permute") =>
         LET j == qrh_length_inject(state[p], Len(input[p]), offset[p], schema[p])
         IN  /\ Len(j.touched) = 4
             /\ Range(j.touched) \subseteq 0..(QRH_WORDS_SIZE - 1)
             /\ ChangedWords(state[p], state'[p]) \subseteq Range(j.touched)
             /\ Cardinality(ChangedWords(state[p], state'[p])) <= 4]_vars
\* the state on entry to the first chunk's length injection
FirstMixed(buf) ==
  BlockMix(constants,
           FillBlocks(ZeroWords, buf, 0, BlockSize(Len(buf), 0)).blocks)
C11_Witness ==
  /\ pc[1] = "permute"
  /\ offset[1] = 0
  /\ Len(input[1]) = QRH_BLOCK_SIZE + 1
  /\ Cardinality(ChangedWords(FirstMixed(input[1]), state[1])) \in 2..4

\* C12: the seed index (L << 8) mod 16 is 0 for every input length L, so
\* every call of qrh_256 starts with schema = constants[0] = 0x6A09E667.
C12_SeedIndexZero ==
  \A p \in Procs :
    Running(p) =>
      /\ SeedIndex(Len(input[p])) = 0
      /\ Seed(p) = W(27145, 58983)
      /\ Len(log[p]) < 2 => schema[p] = W(27145, 58983)
C12_Witness ==
  /\ pc[1] = "inject"
  /\ offset[1] = 0
  /\ Len(input[1]) = 2 * QRH_BLOCK_SIZE + 1
  /\ schema[1] = constants[0]
  /\ constants[Len(input[1]) % QRH_CONSTANTS_SIZE] # constants[0]
====
